---- MODULE Spec2Model ----
(***************************************************************************)
(* Authentication and account-security subsystem of Revora-Backend:        *)
(* PasswordResetService (forgot-password / reset-password),                *)
(* ChangePasswordService, SessionRepository, UserRepository and the        *)
(* scrypt password utilities, over a PostgreSQL store with autocommit      *)
(* statements on the pool and BEGIN..COMMIT transactions with row locks on *)
(* a dedicated client; the in-memory fixed-window rate-limit middleware;   *)
(* the HS256 token codec (signJwt / verifyJwt) with requireAuth; and the   *)
(* logout route over the session store.                                    *)
(***************************************************************************)
EXTENDS Integers, Sequences, FiniteSets, TLC

(* ------------------------------ bounds -------------------------------- *)

\* Requests (forgot-password, reset-password, change-password) started in a run.
MaxCalls == 3
\* Storage / dispatcher operations that fail in a run.
MaxFaults == 1
\* Session rows created in a run, beside the one the store starts with.
MaxSessions == 1
\* Raw reset tokens ever generated (and the range a caller may guess from).
MaxTokens == 2
\* The clock runs from 0 to MaxNow minutes in steps of TickMinutes.
MaxNow == 120
TickMinutes == 60
\* Requests the rate-limit middlewares handle in a run.
MaxHits == 3
\* Date.now() runs from 0 to MaxEpochMs in steps of TickMs.
MaxEpochMs == 2000
TickMs == 500
\* Tokens signed in a run.
MaxIssued == 2

(* ------------------------- program constants -------------------------- *)

tokenTtlMinutes == 60
SALT_LENGTH == 16
KEY_LENGTH == 64
Sha256Bytes == 32
SessionTtlMinutes == 60
DefaultLimit == 100
DefaultWindowMs == 60000
MsPerSecond == 1000

(* ------------------------------ values -------------------------------- *)

Procs == {"p1", "p2"}
ProcOrder == [p \in Procs |-> IF p = "p1" THEN 1 ELSE 2]
UserIds == {"u1", "u2"}
NoUserId == "u0"
Passwords == {"pw1", "pw2"}
Salts == {"s1", "s2"}
Nil == "nil"
\* used_at: Date | null -- the null timestamp.
NullTime == -1

\* Characters of the modelled e-mail strings.
Chars == {"a", "A", "d", "D", "g", "b", "c", "@", ".", " "}

\* A request body whose email member is not a string.
NotAString == <<"#object">>

EmailInputs ==
  { <<"a", "@", "b", ".", "c">>,
    <<"A", "@", "b", ".", "c">>,
    <<" ", "a", "@", "b", ".", "c">>,
    <<"d", "@", "b", ".", "c">>,
    <<"g", "@", "b", ".", "c">>,
    <<"a", "b", ".", "c">>,
    NotAString }

(* ------------------------ strings and hashing ------------------------- *)

\* String.prototype.toLowerCase, per character.
LowerChar(c) == CASE c = "A" -> "a" [] c = "D" -> "d" [] OTHER -> c

toLowerCase(s) == [i \in 1..Len(s) |-> LowerChar(s[i])]

RECURSIVE trimStart(_)
trimStart(s) == IF s # <<>> /\ Head(s) = " " THEN trimStart(Tail(s)) ELSE s

RECURSIVE trimEnd(_)
trimEnd(s) ==
  IF s # <<>> /\ s[Len(s)] = " " THEN trimEnd(SubSeq(s, 1, Len(s) - 1)) ELSE s

\* String.prototype.trim
trim(s) == trimEnd(trimStart(s))

\* emailRaw.trim().toLowerCase()
NormalizeEmail(emailRaw) == toLowerCase(trim(emailRaw))

IsString(v) == \A i \in 1..Len(v) : v[i] \in Chars

\* One character of the class [^\s@].
PlainChar(c) == c # " " /\ c # "@"

\* EMAIL_RE = /^[^\s@]+@[^\s@]+\.[^\s@]+$/
EMAIL_RE_test(s) ==
  \E i \in 1..Len(s) : \E j \in 1..Len(s) :
    /\ s[i] = "@"
    /\ s[j] = "."
    /\ 1 < i
    /\ i + 1 < j
    /\ j < Len(s)
    /\ \A k \in 1..Len(s) : k # i => PlainChar(s[k])

\* createHash('sha256').update(x).digest('hex'): a hex string of 32 bytes.
Sha256Hex(x) == <<"sha256", x>>

\* PasswordResetService.hashToken
hashToken(token) == Sha256Hex(token)

\* scrypt(plain, salt, KEY_LENGTH).toString('hex'): a hex string of 64 bytes.
ScryptHex(plain, salt) == <<"scrypt", plain, salt>>

\* randomBytes(SALT_LENGTH).toString('hex')
SaltHex(s) == <<"salt", s>>

\* Bytes that Buffer.from(part, 'hex') yields for a hex string of the model.
HexBytes(part) ==
  CASE part[1] = "sha256" -> Sha256Bytes
    [] part[1] = "scrypt" -> KEY_LENGTH
    [] part[1] = "salt" -> SALT_LENGTH
    [] OTHER -> 0

\* A stored password_hash is kept as the list of its ':'-separated parts,
\* i.e. as stored.split(':') returns it.

\* A hashPassword that uses one salt for every call.
hashPasswordFixedSalt(plain, s) ==
  <<SaltHex("s1"), ScryptHex(plain, SaltHex("s1"))>>

\* utils/password.ts hashPassword with the salt that randomBytes drew.
hashPassword(plain, s) == <<SaltHex(s), ScryptHex(plain, SaltHex(s))>>

\* utils/password.ts comparePassword
comparePassword(plain, stored) ==
  IF Len(stored) < 2 \/ stored[1] = <<>> \/ stored[2] = <<>>
    THEN FALSE
    ELSE LET salt == stored[1]
             storedHash == stored[2]
         IN  /\ KEY_LENGTH = HexBytes(storedHash)
             /\ ScryptHex(plain, salt) = storedHash

\* PasswordResetService.hashPassword (private): a bare SHA-256 hex digest.
resetHashPassword(plaintext) == <<Sha256Hex(plaintext)>>

(* --------------------------- rate-limit values ------------------------ *)

\* Middleware instances created by createRateLimitMiddleware, in creation order.
LimiterIds == {"m1", "m2"}
LimiterOrder == [m \in LimiterIds |-> IF m = "m1" THEN 1 ELSE 2]

\* The module-level defaultStore and one store a caller may build and pass in
\* for each middleware.
DefaultStoreId == <<"defaultStore">>
OwnStore(m) == <<"store", m>>
StoreIds == {DefaultStoreId} \cup {OwnStore(m) : m \in LimiterIds}

\* Options objects passed to createRateLimitMiddleware: a field that is absent
\* is undefined; "store" present stands for a store built by the caller.
NoOptions == [f \in {} |-> 0]
RateLimitOptions ==
  { NoOptions,
    ("limit" :> 2) @@ ("windowMs" :> TickMs),
    ("limit" :> 1) @@ ("windowMs" :> TickMs),
    ("limit" :> 1) @@ ("windowMs" :> TickMs) @@ ("store" :> "own"),
    ("limit" :> 1) @@ ("perUser" :> TRUE),
    ("limit" :> 2) @@ ("perUser" :> TRUE) @@ ("store" :> "own"),
    ("limit" :> 0),
    ("limit" :> 2) @@ ("windowMs" :> 0) }

\* Destructuring with a default: the default applies when the field is undefined.
OrDefault(options, field, default) ==
  IF field \in DOMAIN options THEN options[field] ELSE default

\* A middleware slot before createRateLimitMiddleware has run for it.
NotBuilt ==
  [ built |-> FALSE, limit |-> 0, windowMs |-> 0, perUser |-> FALSE,
    store |-> DefaultStoreId ]

\* new Map<string, WindowEntry>()
NoWindows == [k \in {} |-> 0]

\* What a request carries for the limiter: req.ip (req.socket.remoteAddress is
\* taken to be absent whenever req.ip is) and req.user?.sub.
ClientIp == "1.2.3.4"
Requests ==
  { [ip |-> ClientIp, sub |-> Nil],
    [ip |-> ClientIp, sub |-> "u1"],
    [ip |-> Nil, sub |-> ""] }

\* JavaScript falsiness of an optional string.
Falsy(v) == v = Nil \/ v = ""

(* ---------------------------- token values --------------------------- *)

\* process.env.JWT_SECRET, and a secret the server does not hold.
ServerSecret == "server-secret"
OtherSecret == "other-secret"

\* The { sub, sid } payloads callers ask signJwt to sign.
SignRequests == { [sub |-> "u1", sid |-> "s1"], [sub |-> "u2", sid |-> "s2"] }
\* expiresInSeconds, as passed to signJwt.
TtlSeconds == {-1, 1}

\* The empty string between two dots, and text that is not base64url of
\* anything the server encodes.
EmptySegment == [kind |-> "empty"]
Junk(text) == [kind |-> "junk", text |-> text]

\* JSON.stringify / JSON.parse: parse returns the value of JSON text and throws
\* (no value: {}) on anything else.
JSONstringify(value) == [kind |-> "json", value |-> value]
JSONparse(text) == IF text.kind = "json" THEN {text.value} ELSE {}

\* base64UrlEncode: base64 with the padding stripped and '+', '/' replaced.
base64UrlEncode(input) == [kind |-> "base64url", of |-> input]

\* A decoder that does not undo the URL-safe alphabet.
base64Decode(segment) == [kind |-> "bytes"]

\* base64UrlDecode: the encoded input for a segment base64UrlEncode produced,
\* and some other bytes for every other segment.
base64UrlDecode(segment) ==
  IF segment.kind = "base64url" THEN segment.of ELSE [kind |-> "bytes"]

\* createHmac('sha256', secret).update(signingInput).digest()
Hmac(secret, header, body) ==
  [kind |-> "hmac", secret |-> secret, header |-> header, body |-> body]

\* Math.floor(Date.now() / 1000)
NowSeconds(ms) == ms \div MsPerSecond

JwtHeader == base64UrlEncode(JSONstringify([alg |-> "HS256", typ |-> "JWT"]))

\* signJwt(payload, expiresInSeconds) at Date.now() = ms under a secret: the
\* token as its dot-separated segments.
signJwt(sub, sid, expiresInSeconds, ms, secret) ==
  LET fullPayload == [ sub |-> sub, sid |-> sid, iat |-> NowSeconds(ms),
                       exp |-> NowSeconds(ms) + expiresInSeconds ]
      body == base64UrlEncode(JSONstringify(fullPayload))
  IN  <<JwtHeader, body, base64UrlEncode(Hmac(secret, JwtHeader, body))>>

\* A comparison of the lengths alone.
SameLength(signature, expectedSig) == signature.kind = expectedSig.kind

\* sigBuf.length === expectedBuf.length && timingSafeEqual(sigBuf, expectedBuf)
SignatureMatches(signature, expectedSig) == signature = expectedSig

\* An expiry check that never fires.
NeverExpired(nowSeconds, exp) == FALSE

\* Math.floor(Date.now() / 1000) > payload.exp
Expired(nowSeconds, exp) == nowSeconds > exp

\* verifyJwt(token) of utils/jwt at Date.now() = ms: {payload}, or {} for null.
verifyJwt(token, ms) ==
  IF Len(token) # 3 THEN {}
  ELSE IF ~SignatureMatches(token[3],
             base64UrlEncode(Hmac(ServerSecret, token[1], token[2]))) THEN {}
  ELSE {payload \in JSONparse(base64UrlDecode(token[2])) :
          ~Expired(NowSeconds(ms), payload.exp)}

\* verifyJwt(token, secret) of the auth middleware at Date.now() = ms:
\* {payload}, or {} when it throws.
verifyJwtWithSecret(token, secret, ms) ==
  IF Len(token) # 3 THEN {}
  ELSE IF ~SignatureMatches(token[3],
             base64UrlEncode(Hmac(secret, token[1], token[2]))) THEN {}
  ELSE {payload \in JSONparse(base64UrlDecode(token[2])) :
          ~Expired(NowSeconds(ms), payload.exp)}

\* Authorization headers: absent, or '<scheme> <token>'.
NoHeader == [scheme |-> Nil, token |-> <<>>]
Authorization(scheme, token) == [scheme |-> scheme, token |-> token]

\* What a middleware did with a request: the status it responded with (0 when
\* it wrote no response), whether it called next(), req.auth ({} when unset),
\* and whether it threw instead.
Unauthorized == [status |-> 401, next |-> FALSE, auth |-> {}, threw |-> FALSE]
Authorized(payload, token) ==
  [ status |-> 0, next |-> TRUE,
    auth |-> {[userId |-> payload.sub, sessionId |-> payload.sid, tokenId |-> token]},
    threw |-> FALSE ]
\* getSecret() threw inside the middleware: nothing is caught there.
SecretNotSet == [status |-> 0, next |-> FALSE, auth |-> {}, threw |-> TRUE]
\* res.status(500).json({ error: 'Server configuration error' })
ServerConfigurationError == [status |-> 500, next |-> FALSE, auth |-> {}, threw |-> FALSE]

\* A requireAuth that does not look at the scheme of the header.
requireAuthAnyScheme(header, ms) ==
  LET payloads == verifyJwt(header.token, ms)
  IN  IF payloads = {} THEN Unauthorized
      ELSE Authorized(CHOOSE payload \in payloads : TRUE, header.token)

\* requireAuth over utils/jwt: 401 for a missing or non-Bearer header and for a
\* token verifyJwt returns null for; else req.auth is set and next() called.
requireAuth(header, ms) ==
  IF header.scheme # "Bearer" THEN Unauthorized
  ELSE LET payloads == verifyJwt(header.token, ms)
       IN  IF payloads = {} THEN Unauthorized
           ELSE Authorized(CHOOSE payload \in payloads : TRUE, header.token)

\* requireAuth over verifyJwt(token, secret): the throw is caught and answered 401.
requireAuthWithSecret(header, ms) ==
  IF header.scheme # "Bearer" THEN Unauthorized
  ELSE LET payloads == verifyJwtWithSecret(header.token, ServerSecret, ms)
       IN  IF payloads = {} THEN Unauthorized
           ELSE Authorized(CHOOSE payload \in payloads : TRUE, header.token)

\* process.env as the server sees it.
RunningEnv == [NODE_ENV |-> "development", JWT_SECRET |-> ServerSecret]
Envs == [NODE_ENV : {"development", "production"}, JWT_SECRET : {ServerSecret, Nil}]

\* buildConfig(): in production a missing JWT_SECRET stops the process at startup.
buildConfigThrows(e) == e.NODE_ENV = "production" /\ e.JWT_SECRET = Nil
StartEnvs == {e \in Envs : ~buildConfigThrows(e)}

\* getSecret(): {secret}, or {} when it throws because the variable is not set.
getSecret(e) == IF e.JWT_SECRET = Nil THEN {} ELSE {e.JWT_SECRET}

\* requireAuth over utils/jwt in environment e: verifyJwt calls getSecret() on
\* every token it is given.
requireAuthIn(e, header, ms) ==
  IF header.scheme = "Bearer" /\ getSecret(e) = {} THEN SecretNotSet
  ELSE requireAuth(header, ms)

\* requireAuth over verifyJwt(token, secret) in environment e: it reads
\* process.env.JWT_SECRET on every request and answers 500 without it.
requireAuthWithSecretIn(e, header, ms) ==
  IF header.scheme = "Bearer" /\ getSecret(e) = {} THEN ServerConfigurationError
  ELSE requireAuthWithSecret(header, ms)

\* Session ids tokens are signed for.
Sids == {r.sid : r \in SignRequests}

\* sessions.id as the text a token carries in its sid claim.
SidOf(id) == CASE id = 1 -> "s1" [] id = 2 -> "s2" [] OTHER -> "s3"

\* A session id no row has.
UnknownSid == "s0"

NothingDeleted ==
  [turn |-> 0, sessionId |-> Nil, by |-> Nil, status |-> 0, threw |-> FALSE]

NothingFound == [id |-> 0, at |-> 0, rows |-> {}]

NothingChecked == [plain |-> Nil, stored |-> <<>>, result |-> FALSE]

NothingSeen ==
  [ header |-> NoHeader, at |-> 0, payloads |-> {}, payloadsWithSecret |-> {},
    auth |-> Unauthorized, authWithSecret |-> Unauthorized ]

(* ------------------------------- state -------------------------------- *)

VARIABLES
  now,        \* wall clock, minutes
  users,      \* users table: id -> [email, password_hash, updated_at]
  sessions,   \* sessions table: set of rows
  tokens,     \* password_reset_tokens table: set of rows
  locks,      \* row locks held by open transactions: set of <<row key, proc>>
  sent,       \* messages handed to the email sender
  proc,       \* the in-flight request of each worker
  nRaw,       \* raw reset tokens generated so far
  nSessions,  \* session rows created so far
  calls,      \* requests started so far
  faults,     \* failures injected so far
  redeemOk    \* history: per raw token, resetPassword calls that returned true

\* Request middleware: the rate limiter's process memory.
VARIABLES
  epochMs,    \* Date.now(), milliseconds
  limiters,   \* rate-limit middleware instances: id -> its closure's constants
  windows,    \* InMemoryRateLimitStore.windows of every store: store -> key -> entry
  hits,       \* history: the requests the rate-limit middlewares have handled
  issued,     \* history: the tokens signJwt has returned, with what was asked
  seen,       \* the last Authorization header presented and what became of it
  env,        \* process.env: NODE_ENV and JWT_SECRET
  signFailed  \* history: a signJwt call threw for want of JWT_SECRET

VARIABLES
  lastDelete,  \* the last logout request / session delete and how it ended
  loggedOutAt, \* history: per session id, Date.now() of its first logout 204
  lookedUp,    \* the last SessionRepository.findById and what it returned
  drawn,       \* history: the salts randomBytes has produced
  hashes,      \* history: what hashPassword has returned, and for what
  checked      \* the last comparePassword call and what it returned

limiterVars == <<limiters, windows, hits>>
jwtVars == <<issued, seen, env, signFailed>>
accountVars == <<now, users, sessions, tokens, locks, sent, proc, nRaw, nSessions,
                 calls, faults, redeemOk>>
sessionVars == <<lastDelete, loggedOutAt, lookedUp>>
passwordVars == <<drawn, hashes, checked>>
serviceVars == <<sessionVars, passwordVars>>
middlewareVars == <<epochMs, limiters, windows, hits, issued, seen, env, signFailed>>

vars == <<now, users, sessions, tokens, locks, sent, proc, nRaw, nSessions,
          calls, faults, redeemOk, epochMs, limiters, windows, hits,
          issued, seen, env, signFailed,
          lastDelete, loggedOutAt, lookedUp, drawn, hashes, checked>>

RawTokens == 1..MaxTokens

Idle ==
  [ pc |-> "idle", op |-> Nil, viaRoute |-> FALSE, email |-> <<>>,
    user |-> Nil, raw |-> 0, expiresAt |-> 0, newPassword |-> Nil,
    rows |-> {}, checkedAt |-> 0, txStart |-> 0, passwordHash |-> <<>>,
    writes |-> <<>>, client |-> FALSE, result |-> Nil, response |-> Nil,
    rolledBack |-> FALSE, released |-> 0 ]

\* A settled request: only what it returned outlives the call (result: the
\* value returned or the error thrown; response: what the route answered).
Done(op, result, response) ==
  [Idle EXCEPT !.pc = "done", !.op = op, !.result = result, !.response = response]

\* A settled forgot-password request, with the email it was made for.
DoneForgot(req, result, response) ==
  [Done("forgot", result, response) EXCEPT !.viaRoute = req.viaRoute,
                                           !.email = req.email]

\* The store starts with both accounts registered and u1 logged in once.
InitialSessions ==
  {[ id |-> 1, user_id |-> "u1", token_hash |-> Sha256Hex(<<"jwt", 1>>),
     expires_at |-> SessionTtlMinutes, created_at |-> 0 ]}

\* The state after construction, the process having started in environment e.
InitIn(e) ==
  /\ now = 0
  /\ users = [u \in UserIds |->
               [ email |-> IF u = "u1" THEN <<"a", "@", "b", ".", "c">>
                                       ELSE <<"D", "@", "b", ".", "c">>,
                 password_hash |-> hashPassword("pw1", "s1"),
                 updated_at |-> 0 ]]
  /\ sessions = InitialSessions
  /\ tokens = {}
  /\ locks = {}
  /\ sent = {}
  /\ proc = [p \in Procs |-> Idle]
  /\ nRaw = 0
  /\ nSessions = 0
  /\ calls = 0
  /\ faults = 0
  /\ redeemOk = [t \in RawTokens |-> 0]
  /\ epochMs = 0
  /\ limiters = [m \in LimiterIds |-> NotBuilt]
  /\ windows = [s \in StoreIds |-> NoWindows]
  /\ hits = <<>>
  /\ issued = {}
  /\ seen = NothingSeen
  /\ env = e
  /\ signFailed = FALSE
  /\ lastDelete = NothingDeleted
  /\ loggedOutAt = [sid \in Sids |-> NullTime]
  /\ lookedUp = NothingFound
  /\ drawn = {}
  /\ hashes = <<>>
  /\ checked = NothingChecked

Init == InitIn(RunningEnv)

\* The server started in any environment buildConfig() lets through.
InitAnyEnv == \E e \in StartEnvs : InitIn(e)

\* A worker is free when it has no request or has finished one.
Free(p) == proc[p].pc \in {"idle", "done"}

\* Workers are interchangeable: a new request goes to the first free one.
FirstFree(p) == \A q \in Procs : Free(q) => ProcOrder[p] <= ProcOrder[q]

CanStart(p) == Free(p) /\ FirstFree(p) /\ calls < MaxCalls

CanFail == faults < MaxFaults


(* ------------------------------ storage ------------------------------- *)

UserRow(u) == <<"users", u>>
TokenRow(id) == <<"password_reset_tokens", id>>

\* A row is available to p when no other open transaction holds its lock.
Unlocked(p, key) == \A l \in locks : l[1] = key => l[2] = p

ReleaseLocks(p) == {l \in locks : l[2] # p}

\* The lookup without its WHERE clause.
UsersIgnoringEmail(email) == UserIds

\* SELECT id, email FROM users WHERE LOWER(email) = $1
UsersByEmail(email) == {u \in UserIds : toLowerCase(users[u].email) = email}

\* SELECT ... FROM password_reset_tokens WHERE token_hash = $1
TokensByHash(tokenHash) == {t \in tokens : t.token_hash = tokenHash}

\* An UPDATE of used_at that marks every token row of the row's user.
ApplyWriteToUser(db, w) ==
  IF w.kind = "password_hash"
    THEN << [db[1] EXCEPT ![w.id].password_hash = w.value], db[2] >>
    ELSE << db[1],
            {IF \E r \in db[2] : r.id = w.id /\ r.user_id = t.user_id
               THEN [t EXCEPT !.used_at = w.value] ELSE t : t \in db[2]} >>

\* One buffered or direct UPDATE applied to the two tables <<users, tokens>>.
ApplyWrite(db, w) ==
  IF w.kind = "password_hash"
    THEN << [db[1] EXCEPT ![w.id].password_hash = w.value], db[2] >>
    ELSE << db[1],
            {IF t.id = w.id THEN [t EXCEPT !.used_at = w.value] ELSE t : t \in db[2]} >>

RECURSIVE ApplyWrites(_, _)
ApplyWrites(db, ws) ==
  IF ws = <<>> THEN db ELSE ApplyWrites(ApplyWrite(db, Head(ws)), Tail(ws))

(* ------------------------------- clock -------------------------------- *)

Tick ==
  /\ now + TickMinutes <= MaxNow
  /\ now' = now + TickMinutes
  /\ UNCHANGED <<users, sessions, tokens, locks, sent, proc, nRaw, nSessions,
                 calls, faults, redeemOk>>
  /\ UNCHANGED <<middlewareVars, serviceVars>>

(* ------------------------------ sessions ------------------------------ *)

\* SessionRepository.createSession
createSession(u) ==
  /\ nSessions < MaxSessions
  /\ nSessions' = nSessions + 1
  /\ sessions' = sessions \cup
       {[ id |-> nSessions + 2, user_id |-> u,
          token_hash |-> Sha256Hex(<<"jwt", nSessions + 2>>),
          expires_at |-> now + SessionTtlMinutes, created_at |-> now ]}
  /\ UNCHANGED <<now, users, tokens, locks, sent, proc, nRaw, calls, faults, redeemOk>>
  /\ UNCHANGED <<middlewareVars, serviceVars>>

\* SessionRepository.findById: result.rows of the point lookup; {} is null.
findById(rows, id) == {s \in rows : s.id = id}

\* The DELETE without its WHERE clause.
deleteEverySession(rows, userId) == {}

\* DELETE FROM sessions WHERE user_id = $1
deleteAllSessionsByUserId(rows, userId) == {s \in rows : s.user_id # userId}

(* -------------------- forgot-password / requestReset ------------------ *)

\* The handler's outward answer once requestPasswordReset has settled.
Generic200 == "200 If the email exists, a password reset link has been sent"
\* The awaited promise rejected inside the async handler: no response is written.
Rejected == "rejected: no response"

ForgotResponse(route, settled) ==
  IF ~route THEN Nil ELSE IF settled = "ok" THEN Generic200 ELSE Rejected

\* if (!user) return;
UserFound(found) == found # {}

\* POST /api/auth/forgot-password up to the end of findUserByEmail; with
\* route = FALSE the service method is called directly.
ForgotBegin(p) ==
  /\ CanStart(p)
  /\ \E emailRaw \in EmailInputs, route \in BOOLEAN :
       LET fresh == [Idle EXCEPT !.op = "forgot", !.viaRoute = route,
                                 !.email = emailRaw]
           email == NormalizeEmail(emailRaw)
           found == UsersByEmail(email)
       IN
       \* The service is also called directly, with the strings the route
       \* would turn away (the route covers the others).
       /\ route \/ (IsString(emailRaw) /\ ~EMAIL_RE_test(emailRaw))
       /\ calls' = calls + 1
       /\ IF route /\ (~IsString(emailRaw) \/ ~EMAIL_RE_test(emailRaw))
            THEN /\ proc' = [proc EXCEPT ![p] = DoneForgot(fresh, Nil, Generic200)]
                 /\ UNCHANGED <<nRaw, faults>>
            ELSE \/ /\ CanFail
                    /\ faults' = faults + 1
                    /\ proc' = [proc EXCEPT ![p] =
                          DoneForgot(fresh, "findUserByEmail failed",
                                     ForgotResponse(route, "error"))]
                    /\ UNCHANGED nRaw
                 \/ /\ ~UserFound(found)
                    /\ proc' = [proc EXCEPT ![p] =
                          DoneForgot(fresh, "ok", ForgotResponse(route, "ok"))]
                    /\ UNCHANGED <<nRaw, faults>>
                 \/ /\ UserFound(found)
                    /\ nRaw < MaxTokens
                    /\ nRaw' = nRaw + 1
                    /\ \E u \in found :
                         proc' = [proc EXCEPT ![p] =
                           [fresh EXCEPT !.pc = "rq_insert", !.user = u,
                                         !.raw = nRaw + 1,
                                         !.expiresAt = now + tokenTtlMinutes]]
                    /\ UNCHANGED faults
  /\ UNCHANGED <<now, users, sessions, tokens, locks, sent, nSessions, redeemOk>>
  /\ UNCHANGED <<middlewareVars, serviceVars>>

\* INSERT INTO password_reset_tokens (user_id, token_hash, expires_at)
ForgotInsert(p) ==
  /\ proc[p].pc = "rq_insert"
  /\ \/ /\ tokens' = tokens \cup
             {[ id |-> Cardinality(tokens) + 1, user_id |-> proc[p].user,
                token_hash |-> hashToken(proc[p].raw),
                expires_at |-> proc[p].expiresAt, used_at |-> NullTime ]}
        /\ proc' = [proc EXCEPT ![p].pc = "rq_send"]
        /\ UNCHANGED faults
     \/ /\ CanFail
        /\ faults' = faults + 1
        /\ proc' = [proc EXCEPT ![p] =
             DoneForgot(proc[p], "insert failed",
                        ForgotResponse(proc[p].viaRoute, "error"))]
        /\ UNCHANGED tokens
  /\ UNCHANGED <<now, users, sessions, locks, sent, nRaw, nSessions, calls, redeemOk>>
  /\ UNCHANGED <<middlewareVars, serviceVars>>

\* await this.emailSender(user.email, 'Password Reset', link with the raw token)
ForgotSend(p) ==
  /\ proc[p].pc = "rq_send"
  /\ \/ /\ sent' = sent \cup {[to |-> users[proc[p].user].email, raw |-> proc[p].raw]}
        /\ proc' = [proc EXCEPT ![p] =
             DoneForgot(proc[p], "ok", ForgotResponse(proc[p].viaRoute, "ok"))]
        /\ UNCHANGED faults
     \/ /\ CanFail
        /\ faults' = faults + 1
        /\ proc' = [proc EXCEPT ![p] =
             DoneForgot(proc[p], "emailSender failed",
                        ForgotResponse(proc[p].viaRoute, "error"))]
        /\ UNCHANGED sent
  /\ UNCHANGED <<now, users, sessions, tokens, locks, nRaw, nSessions, calls, redeemOk>>
  /\ UNCHANGED <<middlewareVars, serviceVars>>


(* ---------------------- reset-password / redeem ----------------------- *)

\* row.used_at || new Date(row.expires_at) < new Date()
TokenRejected(row, at) == row.used_at # NullTime \/ row.expires_at < at

\* SELECT ... FOR UPDATE waits for the row locks of the rows it returns and
\* then holds them until the transaction ends.
SelectWaits(p, rows) == \E r \in rows : ~Unlocked(p, TokenRow(r.id))

\* The same read without FOR UPDATE: it takes no row lock.
SelectWithoutLock(p, rows) == {}

SelectLocks(p, rows) == {<<TokenRow(r.id), p>> : r \in rows}

\* An UPDATE sent through the pool instead: it commits on its own at once.
ExecOnPool(p, key, w, next) ==
  /\ Unlocked(p, key)
  /\ LET db == ApplyWrite(<<users, tokens>>, w) IN users' = db[1] /\ tokens' = db[2]
  /\ proc' = [proc EXCEPT ![p].pc = next]
  /\ UNCHANGED locks

\* An UPDATE issued on the transaction's client: it takes the row lock and its
\* effect stays private to the transaction until COMMIT.
ExecOnClient(p, key, w, next) ==
  /\ Unlocked(p, key)
  /\ locks' = locks \cup {<<key, p>>}
  /\ proc' = [proc EXCEPT ![p].pc = next, ![p].writes = Append(@, w)]
  /\ UNCHANGED <<users, tokens>>

\* POST /api/auth/reset-password around the awaited service call: false is
\* answered 400, a thrown error 500, true 200.
InvalidOrExpired400 == "400 Invalid or expired token"
PasswordUpdated200 == "200 Password updated"
InternalError500 == "500 Internal server error"

ResetResponse(ok) ==
  CASE ok = "true" -> PasswordUpdated200
    [] ok = "false" -> InvalidOrExpired400
    [] OTHER -> InternalError500

\* A finally block that forgets the connection.
releaseNever(client) == 0

\* finally { client?.release() }: the release() calls it makes, client telling
\* whether db.connect() had returned a connection.
release(client) == IF client THEN 1 ELSE 0

\* resetPassword settles: what it returned or threw, whether a ROLLBACK was
\* sent on its connection on the way out, and what its finally block released.
Settled(p, result, rollback) ==
  [ Done("reset", result, ResetResponse(result))
      EXCEPT !.rolledBack = rollback, !.released = release(proc[p].client) ]

\* resetPassword up to the end of db.connect().
ResetBegin(p) ==
  /\ CanStart(p)
  /\ calls' = calls + 1
  /\ \E tokenRaw \in RawTokens, newPassword \in Passwords :
       LET fresh == [Idle EXCEPT !.op = "reset", !.raw = tokenRaw,
                                 !.newPassword = newPassword]
       IN  \/ /\ proc' = [proc EXCEPT ![p] = [fresh EXCEPT !.pc = "rp_begin",
                                                            !.client = TRUE]]
              /\ UNCHANGED faults
           \/ /\ CanFail
              /\ faults' = faults + 1
              /\ proc' = [proc EXCEPT ![p] = Settled(p, "error", FALSE)]
  /\ UNCHANGED <<now, users, sessions, tokens, locks, sent, nRaw, nSessions, redeemOk>>
  /\ UNCHANGED <<middlewareVars, serviceVars>>

\* await client.query('BEGIN')
ResetTxBegin(p) ==
  /\ proc[p].pc = "rp_begin"
  /\ \/ /\ proc' = [proc EXCEPT ![p].pc = "rp_select", ![p].txStart = now]
        /\ UNCHANGED faults
     \/ /\ CanFail
        /\ faults' = faults + 1
        /\ proc' = [proc EXCEPT ![p].pc = "rp_catch"]
  /\ UNCHANGED <<now, users, sessions, tokens, locks, sent, nRaw, nSessions,
                 calls, redeemOk>>
  /\ UNCHANGED <<middlewareVars, serviceVars>>

\* The locked read and the two validity checks that follow it.
ResetSelect(p) ==
  /\ proc[p].pc = "rp_select"
  /\ \/ LET rows == TokensByHash(hashToken(proc[p].raw)) IN
        /\ ~SelectWaits(p, rows)
        /\ locks' = locks \cup SelectLocks(p, rows)
        /\ IF rows = {}
             THEN proc' = [proc EXCEPT ![p].pc = "rp_rollback", ![p].checkedAt = now]
             ELSE \E row \in rows :
                    proc' = [proc EXCEPT
                      ![p].rows = {row},
                      ![p].checkedAt = now,
                      ![p].pc = IF TokenRejected(row, now) THEN "rp_rollback"
                                                           ELSE "rp_update_user",
                      ![p].passwordHash = IF TokenRejected(row, now) THEN <<>>
                                          ELSE resetHashPassword(proc[p].newPassword)]
        /\ UNCHANGED faults
     \/ /\ CanFail
        /\ faults' = faults + 1
        /\ proc' = [proc EXCEPT ![p].pc = "rp_catch"]
        /\ UNCHANGED locks
  /\ UNCHANGED <<now, users, sessions, tokens, sent, nRaw, nSessions, calls, redeemOk>>
  /\ UNCHANGED <<middlewareVars, serviceVars>>

\* await client.query('ROLLBACK'); return false; (finally: client.release())
ResetRollback(p) ==
  /\ proc[p].pc = "rp_rollback"
  /\ \/ /\ locks' = ReleaseLocks(p)
        /\ proc' = [proc EXCEPT ![p] = Settled(p, "false", TRUE)]
        /\ UNCHANGED faults
     \/ /\ CanFail
        /\ faults' = faults + 1
        /\ proc' = [proc EXCEPT ![p].pc = "rp_catch"]
        /\ UNCHANGED locks
  /\ UNCHANGED <<now, users, sessions, tokens, sent, nRaw, nSessions, calls, redeemOk>>
  /\ UNCHANGED <<middlewareVars, serviceVars>>

\* A statement of the open transaction fails: control passes to the catch block.
StatementFails(p) ==
  /\ CanFail
  /\ faults' = faults + 1
  /\ proc' = [proc EXCEPT ![p].pc = "rp_catch"]
  /\ UNCHANGED <<users, tokens, locks>>

\* UPDATE users SET password_hash = $1 WHERE id = $2
ResetUpdateUser(p) ==
  /\ proc[p].pc = "rp_update_user"
  /\ \/ /\ \E row \in proc[p].rows :
             ExecOnClient(p, UserRow(row.user_id),
                          [kind |-> "password_hash", id |-> row.user_id,
                           value |-> proc[p].passwordHash],
                          "rp_update_token")
        /\ UNCHANGED faults
     \/ StatementFails(p)
  /\ UNCHANGED <<now, sessions, sent, nRaw, nSessions, calls, redeemOk>>
  /\ UNCHANGED <<middlewareVars, serviceVars>>

\* UPDATE password_reset_tokens SET used_at = NOW() WHERE id = $1
\* (NOW() is the start time of the transaction)
ResetUpdateToken(p) ==
  /\ proc[p].pc = "rp_update_token"
  /\ \/ /\ \E row \in proc[p].rows :
             ExecOnClient(p, TokenRow(row.id),
                          [kind |-> "used_at", id |-> row.id,
                           value |-> proc[p].txStart],
                          "rp_commit")
        /\ UNCHANGED faults
     \/ StatementFails(p)
  /\ UNCHANGED <<now, sessions, sent, nRaw, nSessions, calls, redeemOk>>
  /\ UNCHANGED <<middlewareVars, serviceVars>>

\* await client.query('COMMIT'); return true; (finally: client.release())
ResetCommit(p) ==
  /\ proc[p].pc = "rp_commit"
  /\ \/ /\ LET db == ApplyWrites(<<users, tokens>>, proc[p].writes)
           IN  users' = db[1] /\ tokens' = db[2]
        /\ locks' = ReleaseLocks(p)
        /\ proc' = [proc EXCEPT ![p] = Settled(p, "true", FALSE)]
        /\ redeemOk' = [redeemOk EXCEPT ![proc[p].raw] = @ + 1]
        /\ UNCHANGED faults
     \/ /\ StatementFails(p)
        /\ UNCHANGED redeemOk
  /\ UNCHANGED <<now, sessions, sent, nRaw, nSessions, calls>>
  /\ UNCHANGED <<middlewareVars, serviceVars>>

\* A catch block that reports the failure as an invalid token.
CatchReturnsFalse(p) ==
  /\ proc[p].pc = "rp_catch"
  /\ locks' = ReleaseLocks(p)
  /\ proc' = [proc EXCEPT ![p] = Done("reset", "false", ResetResponse("false"))]
  /\ UNCHANGED <<now, users, sessions, tokens, sent, nRaw, nSessions, calls,
                 faults, redeemOk>>
  /\ UNCHANGED <<middlewareVars, serviceVars>>

\* catch { try { ROLLBACK } catch {} ; throw new Error('Password reset failed') }
\* (finally: client.release()).  The server ends the transaction whether the
\* ROLLBACK is answered or the connection is gone.
ResetCatch(p) ==
  /\ proc[p].pc = "rp_catch"
  /\ locks' = ReleaseLocks(p)
  /\ proc' = [proc EXCEPT ![p] = Settled(p, "error", proc[p].client)]
  /\ UNCHANGED <<now, users, sessions, tokens, sent, nRaw, nSessions, calls,
                 faults, redeemOk>>
  /\ UNCHANGED <<middlewareVars, serviceVars>>

(* --------------------------- change-password -------------------------- *)

\* UserRepository.updatePasswordHash, one autocommit UPDATE on the pool.
updatePasswordHash(rows, userId, newPasswordHash, at) ==
  [u \in UserIds |->
     IF u = userId
       THEN [rows[u] EXCEPT !.password_hash = newPasswordHash, !.updated_at = at]
       ELSE rows[u]]

\* A changePassword that hashes and stores the new password before it has
\* verified the current one.
ChangeBeginWriteFirst(p) ==
  /\ CanStart(p)
  /\ calls' = calls + 1
  /\ \E userId \in UserIds \cup {NoUserId}, cur \in Passwords, new \in Passwords :
       LET fresh == [Idle EXCEPT !.op = "change", !.user = userId]
       IN  \/ /\ userId \notin UserIds
              /\ proc' = [proc EXCEPT ![p] = Done("change", "404", Nil)]
              /\ UNCHANGED users
           \/ /\ userId \in UserIds
              /\ ~comparePassword(cur, users[userId].password_hash)
              /\ \E s \in Salts :
                   users' = updatePasswordHash(users, userId, hashPassword(new, s), now)
              /\ proc' = [proc EXCEPT ![p] = Done("change", "401", Nil)]
           \/ /\ userId \in UserIds
              /\ comparePassword(cur, users[userId].password_hash)
              /\ \E s \in Salts :
                   proc' = [proc EXCEPT ![p] =
                     [fresh EXCEPT !.pc = "cp_update",
                                   !.passwordHash = hashPassword(new, s)]]
              /\ UNCHANGED users
  /\ UNCHANGED <<now, sessions, tokens, locks, sent, nRaw, nSessions, redeemOk, faults>>
  /\ UNCHANGED <<middlewareVars, serviceVars>>

\* changePassword up to the end of hashPassword: findById, comparePassword, hash.
ChangeBegin(p) ==
  /\ CanStart(p)
  /\ calls' = calls + 1
  /\ \E userId \in UserIds \cup {NoUserId}, cur \in Passwords, new \in Passwords :
       LET fresh == [Idle EXCEPT !.op = "change", !.user = userId]
       IN  \/ /\ CanFail
              /\ faults' = faults + 1
              /\ proc' = [proc EXCEPT ![p] = Done("change", "error", Nil)]
           \/ /\ userId \notin UserIds
              /\ proc' = [proc EXCEPT ![p] = Done("change", "404", Nil)]
              /\ UNCHANGED faults
           \/ /\ userId \in UserIds
              /\ ~comparePassword(cur, users[userId].password_hash)
              /\ proc' = [proc EXCEPT ![p] = Done("change", "401", Nil)]
              /\ UNCHANGED faults
           \/ /\ userId \in UserIds
              /\ comparePassword(cur, users[userId].password_hash)
              /\ \E s \in Salts :
                   proc' = [proc EXCEPT ![p] =
                     [fresh EXCEPT !.pc = "cp_update",
                                   !.passwordHash = hashPassword(new, s)]]
              /\ UNCHANGED faults
  /\ UNCHANGED <<now, users, sessions, tokens, locks, sent, nRaw, nSessions, redeemOk>>
  /\ UNCHANGED <<middlewareVars, serviceVars>>

\* await this.userRepository.updatePasswordHash(userId, newHash)
ChangeUpdate(p) ==
  /\ proc[p].pc = "cp_update"
  /\ \/ /\ Unlocked(p, UserRow(proc[p].user))
        /\ users' = updatePasswordHash(users, proc[p].user, proc[p].passwordHash, now)
        /\ proc' = [proc EXCEPT ![p].pc = "cp_delete"]
        /\ UNCHANGED faults
     \/ /\ CanFail
        /\ faults' = faults + 1
        /\ proc' = [proc EXCEPT ![p] = Done("change", "error", Nil)]
        /\ UNCHANGED users
  /\ UNCHANGED <<now, sessions, tokens, locks, sent, nRaw, nSessions, calls, redeemOk>>
  /\ UNCHANGED <<middlewareVars, serviceVars>>

\* await this.sessionRepository.deleteAllSessionsByUserId(userId)
ChangeDelete(p) ==
  /\ proc[p].pc = "cp_delete"
  /\ \/ /\ sessions' = deleteAllSessionsByUserId(sessions, proc[p].user)
        /\ proc' = [proc EXCEPT ![p] = Done("change", "ok", Nil)]
        /\ UNCHANGED faults
     \/ /\ CanFail
        /\ faults' = faults + 1
        /\ proc' = [proc EXCEPT ![p] = Done("change", "error", Nil)]
        /\ UNCHANGED sessions
  /\ UNCHANGED <<now, users, tokens, locks, sent, nRaw, nSessions, calls, redeemOk>>
  /\ UNCHANGED <<middlewareVars, serviceVars>>

(* ----------------------------- rate limiter --------------------------- *)

\* Date.now() advances.
TickClock ==
  /\ epochMs + TickMs <= MaxEpochMs
  /\ epochMs' = epochMs + TickMs
  /\ UNCHANGED <<limiterVars, jwtVars, accountVars, serviceVars>>

\* createRateLimitMiddleware(options): the constants the returned handler
\* closes over.  No option is validated.
createRateLimitMiddleware(m, options) ==
  /\ ~limiters[m].built
  /\ \A q \in LimiterIds : LimiterOrder[q] < LimiterOrder[m] => limiters[q].built
  /\ limiters' = [limiters EXCEPT ![m] =
       [ built |-> TRUE,
         limit |-> OrDefault(options, "limit", DefaultLimit),
         windowMs |-> OrDefault(options, "windowMs", DefaultWindowMs),
         perUser |-> OrDefault(options, "perUser", FALSE),
         store |-> IF "store" \in DOMAIN options THEN OwnStore(m)
                                                ELSE DefaultStoreId ]]
  /\ UNCHANGED <<epochMs, windows, hits, jwtVars, accountVars, serviceVars>>

\* if (!existing || now >= existing.resetAt)
StartsNewWindow(map, key, t) ==
  key \notin DOMAIN map \/ t >= map[key].resetAt

\* An increment that moves resetAt on every request.
incrementSliding(map, key, windowMs, t) ==
  IF StartsNewWindow(map, key, t)
    THEN [count |-> 1, resetAt |-> t + windowMs]
    ELSE [count |-> map[key].count + 1, resetAt |-> t + windowMs]

\* InMemoryRateLimitStore.increment at Date.now() = t: the entry it leaves
\* under key, which is also what it returns.
increment(map, key, windowMs, t) ==
  IF StartsNewWindow(map, key, t)
    THEN [count |-> 1, resetAt |-> t + windowMs]
    ELSE [count |-> map[key].count + 1, resetAt |-> map[key].resetAt]

\* A write-back that drops every increment past the second.
SetWindowLossy(map, key, entry) ==
  IF entry.count > 2 THEN map ELSE (key :> entry) @@ map

\* this.windows.set(key, entry) / existing.count += 1
SetWindow(map, key, entry) == (key :> entry) @@ map

\* The key of a request that has none is the string 'user:undefined'.
ResolveKeyAlways(perUser, req) ==
  IF perUser THEN <<"user", req.sub>>
  ELSE <<"ip", IF Falsy(req.ip) THEN "unknown" ELSE req.ip>>

\* The rate-limit key of a request; <<>> when perUser is set and the request
\* has no subject (the handler then calls next() and returns).
ResolveKey(perUser, req) ==
  IF perUser
    THEN IF Falsy(req.sub) THEN <<>> ELSE <<"user", req.sub>>
    ELSE <<"ip", IF Falsy(req.ip) THEN "unknown" ELSE req.ip>>

\* An admission test that is off by one.
ExceedsAtLimit(count, limit) == count >= limit

\* if (count > limit)
Exceeds(count, limit) == count > limit

\* The handler returned by createRateLimitMiddleware, run to completion for one
\* request (it is synchronous: no other request runs in between).
RateLimit(m, req) ==
  /\ limiters[m].built
  /\ Len(hits) < MaxHits
  /\ LET lim == limiters[m]
         key == ResolveKey(lim.perUser, req)
     IN  IF key = <<>>
           THEN /\ hits' = Append(hits, [ limiter |-> m, key |-> key, sub |-> req.sub,
                                          at |-> epochMs, count |-> 0, resetAt |-> 0,
                                          status |-> "next" ])
                /\ UNCHANGED windows
           ELSE LET entry == increment(windows[lim.store], key, lim.windowMs, epochMs)
                IN  /\ windows' = [windows EXCEPT ![lim.store] = SetWindow(@, key, entry)]
                    /\ hits' = Append(hits,
                         [ limiter |-> m, key |-> key, sub |-> req.sub,
                           at |-> epochMs, count |-> entry.count,
                           resetAt |-> entry.resetAt,
                           status |-> IF Exceeds(entry.count, lim.limit)
                                        THEN "429" ELSE "next" ])
  /\ UNCHANGED <<epochMs, limiters, jwtVars, accountVars, serviceVars>>

(* ------------------------------- tokens ------------------------------- *)

\* A caller signs a token for payload { sub, sid } with the given lifetime.
Sign(payload, expiresInSeconds) ==
  /\ Cardinality(issued) < MaxIssued
  /\ \E secret \in getSecret(env) :
       issued' = issued \cup
         {[ token |-> signJwt(payload.sub, payload.sid, expiresInSeconds, epochMs,
                              secret),
            sub |-> payload.sub, sid |-> payload.sid,
            ttl |-> expiresInSeconds, at |-> epochMs ]}
  /\ UNCHANGED <<epochMs, seen, env, signFailed, limiterVars, accountVars, serviceVars>>

\* signJwt is called while JWT_SECRET is not set: getSecret() throws.
SignWithoutSecret ==
  /\ getSecret(env) = {}
  /\ signFailed' = TRUE
  /\ UNCHANGED <<epochMs, issued, seen, env, limiterVars, accountVars, serviceVars>>

IssuedTokens == {t.token : t \in issued}

\* Segments a client may put in place of segment k of token: nothing, junk,
\* the same segment of another token it holds, and for the header one naming
\* no algorithm, for the payload the same claims with a later exp, for the
\* signature the HMAC under a secret of its own.
Replacements(token, k) ==
  {EmptySegment, Junk("xxxx")}
    \cup {held[k] : held \in IssuedTokens}
    \cup CASE k = 1 -> {base64UrlEncode(JSONstringify([alg |-> "none", typ |-> "JWT"]))}
           [] k = 2 -> {base64UrlEncode(JSONstringify([payload EXCEPT !.exp = @ + 3600])) :
                          payload \in JSONparse(base64UrlDecode(token[2]))}
           [] OTHER -> {base64UrlEncode(Hmac(OtherSecret, token[1], token[2]))}

\* Tokens that differ from token in exactly one segment.
Tampered(token) ==
  UNION {{[token EXCEPT ![k] = segment] : segment \in Replacements(token, k)} :
           k \in 1..3}
    \ {token}

\* Strings that are not three non-empty dot-separated segments: '', a token cut
\* to two segments or grown to four, '..'.
Malformed(token) ==
  { <<EmptySegment>>, SubSeq(token, 1, 2), Append(token, Junk("x")),
    <<EmptySegment, EmptySegment, EmptySegment>>,
    <<token[1], EmptySegment, token[3]>> }

\* 'not.a.token', and a token signed under a secret the server does not hold.
Foreign ==
  { <<Junk("not"), Junk("a"), Junk("token")>> }
    \cup {signJwt("u1", "s1", 3600, epochMs, OtherSecret)}

\* What a client may send as its Authorization header.
Headers ==
  {NoHeader}
    \cup {Authorization("Bearer", token) :
            token \in IssuedTokens \cup Foreign
                        \cup UNION {Tampered(t) \cup Malformed(t) : t \in IssuedTokens}}
    \cup {Authorization("Basic", token) : token \in IssuedTokens}

\* A gateway that also looks the token's session up in the store and turns
\* the request away when the row is gone.
PresentCheckingStore(header) ==
  LET held(outcome) ==
        IF outcome.next
             /\ ~\E s \in sessions :
                   SidOf(s.id) = (CHOOSE a \in outcome.auth : TRUE).sessionId
          THEN Unauthorized
          ELSE outcome
  IN  /\ seen' = [ header |-> header, at |-> epochMs,
                   payloads |-> UNION {verifyJwt(header.token, epochMs) :
                                         secret \in getSecret(env)},
                   payloadsWithSecret |->
                     UNION {verifyJwtWithSecret(header.token, secret, epochMs) :
                              secret \in getSecret(env)},
                   auth |-> held(requireAuthIn(env, header, epochMs)),
                   authWithSecret |->
                     held(requireAuthWithSecretIn(env, header, epochMs)) ]
      /\ UNCHANGED <<epochMs, issued, env, signFailed, limiterVars, accountVars,
                     serviceVars>>

\* A request arrives with the header: both verifyJwt implementations and both
\* requireAuth middlewares are applied to it at the current time.
Present(header) ==
  /\ seen' = [ header |-> header, at |-> epochMs,
               payloads |-> UNION {verifyJwt(header.token, epochMs) :
                                     secret \in getSecret(env)},
               payloadsWithSecret |->
                 UNION {verifyJwtWithSecret(header.token, secret, epochMs) :
                          secret \in getSecret(env)},
               auth |-> requireAuthIn(env, header, epochMs),
               authWithSecret |-> requireAuthWithSecretIn(env, header, epochMs) ]
  /\ UNCHANGED <<epochMs, issued, env, signFailed, limiterVars, accountVars, serviceVars>>

(* ------------------------- logout and lookups ------------------------- *)

\* A delete that empties the table when no row has the id.
deleteSessionByIdStrict(rows, sessionId) ==
  IF \E s \in rows : SidOf(s.id) = sessionId
    THEN {s \in rows : SidOf(s.id) # sessionId}
    ELSE {}

\* DELETE FROM sessions WHERE id = $1
deleteSessionById(rows, sessionId) == {s \in rows : SidOf(s.id) # sessionId}

\* The headers a client holding issued tokens sends.
BearerHeaders ==
  {NoHeader} \cup {Authorization("Bearer", token) : token \in IssuedTokens}

Ended(sessionId, by, status, threw) ==
  [ turn |-> 1 - lastDelete.turn, sessionId |-> sessionId, by |-> by,
    status |-> status, threw |-> threw ]

\* A token is signed for a session the store holds, naming its user.
SignForSession(payload, expiresInSeconds) ==
  /\ \E s \in sessions : SidOf(s.id) = payload.sid /\ s.user_id = payload.sub
  /\ Sign(payload, expiresInSeconds)

\* POST logout: requireAuth, then createLogoutHandler over LogoutService.logout.
Logout(header) ==
  LET outcome == requireAuthIn(env, header, epochMs)
  IN  /\ IF ~outcome.next
            THEN /\ lastDelete' = Ended(Nil, "logout", outcome.status, outcome.threw)
                 /\ UNCHANGED <<sessions, loggedOutAt, faults>>
            ELSE LET sessionId == (CHOOSE a \in outcome.auth : TRUE).sessionId
                 IN  IF sessionId = ""
                       THEN /\ lastDelete' = Ended(Nil, "logout", 401, FALSE)
                            /\ UNCHANGED <<sessions, loggedOutAt, faults>>
                       ELSE \/ /\ sessions' = deleteSessionById(sessions, sessionId)
                               /\ lastDelete' = Ended(sessionId, "logout", 204, FALSE)
                               /\ loggedOutAt' =
                                    IF loggedOutAt[sessionId] = NullTime
                                      THEN [loggedOutAt EXCEPT ![sessionId] = epochMs]
                                      ELSE loggedOutAt
                               /\ UNCHANGED faults
                            \* the query rejects: catch (error) { next(error) }
                            \/ /\ CanFail
                               /\ faults' = faults + 1
                               /\ lastDelete' = Ended(sessionId, "logout", 500, TRUE)
                               /\ UNCHANGED <<sessions, loggedOutAt>>
      /\ UNCHANGED <<now, users, tokens, locks, sent, proc, nRaw, nSessions, calls,
                     redeemOk, lookedUp, passwordVars, middlewareVars>>

\* SessionRepository.deleteSessionById called on its own.
DeleteSession(sessionId) ==
  /\ sessions' = deleteSessionById(sessions, sessionId)
  /\ lastDelete' = Ended(sessionId, "repository", 0, FALSE)
  /\ UNCHANGED <<now, users, tokens, locks, sent, proc, nRaw, nSessions, calls,
                 faults, redeemOk, loggedOutAt, lookedUp, passwordVars,
                 middlewareVars>>

\* SessionRepository.deleteAllSessionsByUserId called on its own.
InvalidateAll(userId) ==
  /\ sessions' = deleteAllSessionsByUserId(sessions, userId)
  /\ UNCHANGED <<now, users, tokens, locks, sent, proc, nRaw, nSessions, calls,
                 faults, redeemOk, serviceVars, middlewareVars>>

\* SessionRepository.findById called at the current time.
Lookup(id) ==
  /\ lookedUp' = [id |-> id, at |-> now, rows |-> findById(sessions, id)]
  /\ UNCHANGED <<accountVars, lastDelete, loggedOutAt, passwordVars, middlewareVars>>

(* -------------------------- password utilities ----------------------- *)

\* Stored strings that are not "<salt_hex>:<derived_key_hex>", as split(':')
\* returns them: the empty string, a string with no colon, an empty salt, an
\* empty key, a key that is not hex, and a key of another length.
MalformedStored ==
  { << <<>> >>,
    << <<"text", "not-a-valid-hash">> >>,
    << <<>>, ScryptHex("pw1", SaltHex("s1")) >>,
    << SaltHex("s1"), <<>> >>,
    << SaltHex("s1"), <<"text", "zz">> >>,
    << SaltHex("s1"), Sha256Hex("pw1") >> }

\* hashPassword(plain) is called: randomBytes draws a salt it has not drawn.
Hash(plain) ==
  /\ \E s \in Salts \ drawn :
       /\ drawn' = drawn \cup {s}
       /\ hashes' = Append(hashes, [plain |-> plain, stored |-> hashPassword(plain, s)])
  /\ UNCHANGED <<checked, sessionVars, accountVars, middlewareVars>>

\* comparePassword(plain, stored) is called.
Compare(plain, stored) ==
  /\ checked' = [ plain |-> plain, stored |-> stored,
                  result |-> comparePassword(plain, stored) ]
  /\ UNCHANGED <<drawn, hashes, sessionVars, accountVars, middlewareVars>>

Returned == {hashes[i].stored : i \in 1..Len(hashes)}

(* ---------------------------- specification --------------------------- *)

ResetFlow(p) ==
  \/ ForgotBegin(p)
  \/ ForgotInsert(p)
  \/ ForgotSend(p)
  \/ ResetBegin(p)
  \/ ResetTxBegin(p)
  \/ ResetSelect(p)
  \/ ResetRollback(p)
  \/ ResetUpdateUser(p)
  \/ ResetUpdateToken(p)
  \/ ResetCommit(p)
  \/ ResetCatch(p)

ChangeFlow(p) ==
  \/ ChangeBegin(p)
  \/ ChangeUpdate(p)
  \/ ChangeDelete(p)

Next ==
  \/ Tick
  \/ \E u \in UserIds : createSession(u)
  \/ \E p \in Procs : ResetFlow(p) \/ ChangeFlow(p)

Spec == Init /\ [][Next]_vars

\* The password-reset flow alone.
NextReset == Tick \/ \E p \in Procs : ResetFlow(p)

SpecReset == Init /\ [][NextReset]_vars

\* The change-password flow with the session store.
NextChange ==
  \/ Tick
  \/ \E u \in UserIds : createSession(u)
  \/ \E p \in Procs : ChangeFlow(p)

SpecChange == Init /\ [][NextChange]_vars

\* The rate-limit middleware alone.
NextRate ==
  \/ TickClock
  \/ \E m \in LimiterIds, options \in RateLimitOptions :
       createRateLimitMiddleware(m, options)
  \/ \E m \in LimiterIds, req \in Requests : RateLimit(m, req)

SpecRate == Init /\ [][NextRate]_vars

\* Token signing and verification alone.
NextJwt ==
  \/ TickClock
  \/ \E payload \in SignRequests, ttl \in TtlSeconds : Sign(payload, ttl)
  \/ \E header \in Headers : Present(header)

SpecJwt == Init /\ [][NextJwt]_vars

\* The same, the server having started in any environment it starts in.
NextEnv == NextJwt \/ SignWithoutSecret

SpecEnv == InitAnyEnv /\ [][NextEnv]_vars


\* Tokens, the session store and logout.
NextLogout ==
  \/ TickClock
  \/ \E payload \in SignRequests, ttl \in {t \in TtlSeconds : t > 0} :
       SignForSession(payload, ttl)
  \/ \E u \in UserIds : createSession(u)
  \/ \E header \in BearerHeaders : Logout(header)
  \/ \E sessionId \in Sids \cup {UnknownSid} : DeleteSession(sessionId)
  \/ \E u \in UserIds : InvalidateAll(u)
  \/ \E header \in BearerHeaders : Present(header)

SpecLogout == Init /\ [][NextLogout]_vars

\* The session store over time.
NextSessions ==
  \/ Tick
  \/ \E u \in UserIds : createSession(u)
  \/ \E sessionId \in Sids \cup {UnknownSid} : DeleteSession(sessionId)
  \/ \E id \in 1..(MaxSessions + 2) : Lookup(id)

SpecSessions == Init /\ [][NextSessions]_vars


\* The scrypt password utilities alone.
NextPassword ==
  \/ \E plain \in Passwords : Hash(plain)
  \/ \E plain \in Passwords, stored \in Returned \cup MalformedStored :
       Compare(plain, stored)

SpecPassword == Init /\ [][NextPassword]_vars


(* ------------------------- steps of a request ------------------------- *)

\* resetPassword returns true / returns false in this step.
ReturnsTrue(p) ==
  proc[p].pc = "rp_commit" /\ proc'[p].pc = "done" /\ proc'[p].result = "true"

ReturnsFalse(p) ==
  proc[p].pc = "rp_rollback" /\ proc'[p].pc = "done" /\ proc'[p].result = "false"

\* A step taken by worker p on a resetPassword call.
ResetStep(p) == proc'[p] # proc[p] /\ proc'[p].op = "reset"

\* requestPasswordReset is entered for this request (the route lets it through).
ServiceCalled(req) ==
  IsString(req.email) /\ (req.viaRoute => EMAIL_RE_test(req.email))

\* No account has this address once it is trimmed and lower-cased.
NoAccount(emailRaw) ==
  \A u \in UserIds : toLowerCase(users[u].email) # toLowerCase(trim(emailRaw))

(* ------------------------ the limiter's history ----------------------- *)

\* The request counted by a store (it was not passed through uncounted).
Counted(j) == hits[j].key # <<>>

\* Requests j and i went to the same key of the same store.
SameKey(i, j) ==
  /\ Counted(i) /\ Counted(j)
  /\ hits[i].key = hits[j].key
  /\ limiters[hits[i].limiter].store = limiters[hits[j].limiter].store

\* Earlier requests for the key of request j.
Earlier(j) == {i \in 1..(j - 1) : SameKey(i, j)}

Latest(S) == CHOOSE i \in S : \A k \in S : k <= i

\* The request that opened the fixed window request j falls in: j itself when
\* the key is new or j arrives windowMs or more after the opening of the
\* window of the previous request for the key.
RECURSIVE WindowOpener(_)
WindowOpener(j) ==
  IF Earlier(j) = {} THEN j
  ELSE LET o == WindowOpener(Latest(Earlier(j)))
       IN  IF hits[j].at >= hits[o].at + limiters[hits[o].limiter].windowMs
             THEN j ELSE o

\* Requests for the key of j that arrived in j's window, j included.
PositionInWindow(j) ==
  Cardinality({i \in Earlier(j) \cup {j} : WindowOpener(i) = WindowOpener(j)})

\* This step is the handler of middleware m serving one request.
Handles(m) == hits' # hits /\ hits'[Len(hits')].limiter = m

(* ------------------------- what a header met ------------------------- *)

\* The header last presented was turned away by both verifyJwt implementations
\* and answered 401, without next(), by both requireAuth middlewares.
RejectedEverywhere ==
  /\ seen.payloads = {} /\ seen.payloadsWithSecret = {}
  /\ seen.auth = Unauthorized /\ seen.authWithSecret = Unauthorized

\* Some verifier returned claims for, or some middleware let through, the
\* token last presented.
AcceptedSomewhere ==
  \/ seen.payloads # {} \/ seen.payloadsWithSecret # {}
  \/ seen.auth.next \/ seen.authWithSecret.next

\* exp of an issued token: iat + expiresInSeconds, iat the second of signing.
ExpOf(t) == NowSeconds(t.at) + t.ttl

\* The two tokens have three segments each and differ in at least one.
DiffersInASegment(token, signed) ==
  Len(token) = 3 /\ \E k \in 1..3 : token[k] # signed[k]

ThreeNonEmptySegments(token) ==
  Len(token) = 3 /\ \A k \in 1..3 : token[k] # EmptySegment

(* ------------------------------- claims ------------------------------- *)

\* C1: for every raw token at most one resetPassword call ever returns true,
\* whatever the interleaving; the call that returns true read the row unused
\* under its lock; a call that returns false after reading an unexpired row
\* lost to the one call that returned true; and a row's used_at, once set, is
\* never changed again.
C1_SingleRedemption ==
  /\ [](\A t \in RawTokens : redeemOk[t] <= 1)
  /\ [][\A p \in Procs :
          /\ ReturnsTrue(p) =>
               /\ proc[p].rows # {}
               /\ \A row \in proc[p].rows : row.used_at = NullTime
               /\ redeemOk'[proc[p].raw] = 1
          /\ ReturnsFalse(p) =>
               \A row \in proc[p].rows :
                 ~(row.expires_at < proc[p].checkedAt) =>
                    row.used_at # NullTime /\ redeemOk[proc[p].raw] = 1]_vars
  /\ [][\A t \in tokens :
          \E t2 \in tokens' :
            /\ t2.id = t.id
            /\ t.used_at # NullTime => t2 = t]_vars

\* Two redemptions of one unused token in flight: one holds the row lock and
\* is about to commit, the other waits at its locked read.
C1_Witness ==
  \E p \in Procs, q \in Procs :
    /\ proc[p].pc = "rp_commit"
    /\ proc[q].pc = "rp_select"
    /\ proc[q].raw = proc[p].raw
    /\ SelectWaits(q, TokensByHash(hashToken(proc[q].raw)))

\* C2: resetPassword returns true only if the row it read under the lock was
\* unused and strictly unexpired (now < expiresAt) at that read.
C2_TrueOnlyIfStrictlyUnexpired ==
  [][\A p \in Procs :
       ReturnsTrue(p) =>
         \E row \in proc[p].rows :
           row.used_at = NullTime /\ proc[p].checkedAt < row.expires_at]_vars

\* C3: a redemption changes the stored credential and its token row together
\* or not at all: the step that returns true replaces the user's hash and
\* sets used_at on the row it read, and no other step of a resetPassword call
\* (a failed statement, the rollback, a return of false) changes either table.
C3_AllOrNothing ==
  [][\A p \in Procs :
       ResetStep(p) =>
         IF ReturnsTrue(p)
           THEN \E row \in proc[p].rows :
                  /\ users' = [users EXCEPT
                                 ![row.user_id].password_hash = proc[p].passwordHash]
                  /\ tokens' = (tokens \ {row}) \cup
                                 {[row EXCEPT !.used_at = proc[p].txStart]}
           ELSE users' = users /\ tokens' = tokens]_vars

\* A redemption whose transaction failed after its UPDATE of users.
C3_Witness ==
  \E p \in Procs : proc[p].pc = "rp_catch" /\ Len(proc[p].writes) >= 1

\* C4: after resetPassword returns true the stored credential has the
\* salt:derivedKey form and comparePassword(newPassword, it) is true.
C4_ResetHashVerifies ==
  [][\A p \in Procs :
       ReturnsTrue(p) =>
         \A row \in proc[p].rows :
           /\ Len(users'[row.user_id].password_hash) = 2
           /\ comparePassword(proc[p].newPassword,
                              users'[row.user_id].password_hash)]_vars

\* C5: when a redemption succeeds, no session the user had before it remains.
C5_ResetDeletesSessions ==
  [][\A p \in Procs :
       ReturnsTrue(p) =>
         \A row \in proc[p].rows :
           \A s \in sessions :
             s.user_id = row.user_id => findById(sessions', s.id) = {}]_vars

\* C6: no state holds a password hash stored by changePassword together with a
\* session of that user created before the change.
C6_NoSessionOlderThanHash ==
  \A s \in sessions : ~(s.created_at < users[s.user_id].updated_at)

\* C7: the step in which changePassword succeeds for user u leaves every
\* session u had absent (findById finds nothing) and every session of another
\* user in place and unchanged.
C7_ChangeDeletesAllSessions ==
  [][\A p \in Procs :
       (proc[p].pc = "cp_delete" /\ proc'[p].result = "ok") =>
         \A s \in sessions :
           IF s.user_id = proc[p].user
             THEN findById(sessions', s.id) = {}
             ELSE findById(sessions', s.id) = {s}]_vars

\* A change of password has succeeded, deleting a session and leaving another.
C7_Witness ==
  /\ \E p \in Procs : proc[p].op = "change" /\ proc[p].result = "ok"
  /\ sessions # {}
  /\ Cardinality(sessions) < nSessions + Cardinality(InitialSessions)

\* C8: a requestPasswordReset for an address that matches no account settles
\* in one step that inserts no token row and dispatches no email, and returns
\* success (or throws because the lookup itself failed).
C8_UnknownEmailNoToken ==
  [][\A p \in Procs :
       ( /\ proc'[p] # proc[p]
         /\ proc'[p].op = "forgot"
         /\ ServiceCalled(proc'[p])
         /\ NoAccount(proc'[p].email) ) =>
           /\ tokens' = tokens
           /\ sent' = sent
           /\ proc'[p].pc = "done"
           /\ \/ proc'[p].result = "ok"
              \/ proc'[p].result = "findUserByEmail failed" /\ faults' = faults + 1]_vars

\* A request for an unknown address has returned success while a token row of
\* another request is stored.
C8_Witness ==
  /\ tokens # {}
  /\ \E p \in Procs :
       /\ proc[p].op = "forgot" /\ proc[p].pc = "done" /\ proc[p].result = "ok"
       /\ ServiceCalled(proc[p])
       /\ NoAccount(proc[p].email)

\* C9: two forgot-password requests through the route, one for an address of
\* an account and one for an address of none, get the same response whenever
\* the account lookup itself worked in both.
C9_SameResponse ==
  \A p \in Procs, q \in Procs :
    ( /\ proc[p].op = "forgot" /\ proc[p].pc = "done" /\ proc[p].viaRoute
      /\ proc[q].op = "forgot" /\ proc[q].pc = "done" /\ proc[q].viaRoute
      /\ ~NoAccount(proc[p].email)
      /\ NoAccount(proc[q].email)
      /\ proc[p].result # "findUserByEmail failed"
      /\ proc[q].result # "findUserByEmail failed" ) =>
        proc[p].response = proc[q].response

\* C10: when the email sender fails, requestPasswordReset still returns
\* success, the inserted token row stays, and the send is not tried again.
C10_DispatchFailureNotFatal ==
  [][\A p \in Procs :
       ( /\ proc[p].pc = "rq_send"
         /\ proc'[p] # proc[p]
         /\ faults' = faults + 1 ) =>
           /\ proc'[p].pc = "done"
           /\ proc'[p].result = "ok"
           /\ tokens' = tokens
           /\ sent' = sent]_vars

\* C11: resetPassword keeps its two failure kinds apart.  It returns false only
\* from the ROLLBACK that follows a locked read which found no row, a used row
\* or an expired row; a step in which a storage operation fails never returns
\* (it enters the catch block), and the catch block, holding the connection,
\* ends the transaction (locks released, buffered updates discarded) and
\* raises: it never returns false or true.  The route answers false with
\* 400 'Invalid or expired token' and a raised error with 500.
C11_FailureKindsSeparated ==
  [][\A p \in Procs :
       ResetStep(p) =>
         /\ proc'[p].result = "false" =>
               /\ proc[p].pc = "rp_rollback"
               /\ faults' = faults
               /\ \/ proc[p].rows = {}
                  \/ \E row \in proc[p].rows : TokenRejected(row, proc[p].checkedAt)
               /\ proc'[p].response = InvalidOrExpired400
         /\ proc'[p].result = "true" => faults' = faults /\ proc[p].pc = "rp_commit"
         /\ faults' # faults =>
               \/ proc'[p].pc = "rp_catch" /\ proc[p].client
               \/ proc'[p].result = "error" /\ Free(p)
         /\ proc[p].pc = "rp_catch" =>
               /\ proc[p].client
               /\ proc'[p].result = "error"
               /\ \A l \in locks' : l[2] # p
               /\ users' = users /\ tokens' = tokens
         /\ proc'[p].result = "error" =>
               /\ proc[p].pc = "rp_catch" \/ Free(p)
               /\ proc'[p].response = InternalError500
  ]_vars

\* One call was answered 500 after a storage failure inside its transaction
\* and another was answered 400 for its token.
C11_Witness ==
  \E p, q \in Procs :
    /\ proc[p].pc = "done" /\ proc[p].op = "reset"
    /\ proc[p].result = "error" /\ proc[p].response = InternalError500
    /\ proc[q].pc = "done" /\ proc[q].op = "reset"
    /\ proc[q].result = "false" /\ proc[q].response = InvalidOrExpired400
    /\ faults = 1

\* C12: for every limiter with limit N >= 1 and every key, the requests of one
\* window are admitted (next(), no 429) exactly while their position in the
\* window is at most N: the first N pass, request N+1 and every later request
\* of the window get 429.
C12_FirstNAdmitted ==
  \A j \in DOMAIN hits :
    (Counted(j) /\ limiters[hits[j].limiter].limit >= 1) =>
      (hits[j].status = "next" <=>
         PositionInWindow(j) <= limiters[hits[j].limiter].limit)

\* A limiter with limit N >= 1 admitted N requests of a window and rejected
\* request N+1.
C12_Witness ==
  \E j \in DOMAIN hits :
    /\ Counted(j) /\ limiters[hits[j].limiter].limit >= 1
    /\ PositionInWindow(j) = limiters[hits[j].limiter].limit + 1
    /\ hits[j].status = "429"
    /\ \A i \in Earlier(j) : hits[i].limiter = hits[j].limiter /\ hits[i].status = "next"

\* C13: increment(key, windowMs) at time now opens a new window (count 1,
\* resetAt = now + windowMs) when the key has no window or now >= resetAt, and
\* otherwise adds exactly 1 to count and leaves resetAt alone; the first
\* request at or after resetAt is admitted again whatever the count was.
C13_FixedWindow ==
  [][\A m \in LimiterIds :
       (Handles(m) /\ hits'[Len(hits')].key # <<>>) =>
         LET h == hits'[Len(hits')]
             s == limiters[m].store
             old == windows[s]
             new == windows'[s][h.key]
         IN  /\ IF h.key \notin DOMAIN old \/ epochMs >= old[h.key].resetAt
                  THEN /\ new = [count |-> 1, resetAt |-> epochMs + limiters[m].windowMs]
                       /\ limiters[m].limit >= 1 => h.status = "next"
                  ELSE /\ new.count = old[h.key].count + 1
                       /\ new.resetAt = old[h.key].resetAt
             /\ h.count = new.count /\ h.resetAt = new.resetAt
  ]_vars

\* A key was rejected in one window and its first request at resetAt opened a
\* new window with count 1 and was admitted.
C13_Witness ==
  \E i, j \in DOMAIN hits :
    /\ i < j /\ SameKey(i, j)
    /\ hits[i].status = "429"
    /\ hits[j].at = hits[i].resetAt
    /\ hits[j].count = 1 /\ hits[j].status = "next"
    /\ hits[j].resetAt = hits[j].at + limiters[hits[j].limiter].windowMs

\* C14: no increment is lost: the count stored for a key is the number of
\* requests, admitted and rejected alike, that arrived in its current window.
C14_NoLostIncrement ==
  \A j \in DOMAIN hits :
    (Counted(j) /\ \A k \in DOMAIN hits : SameKey(j, k) => k <= j) =>
      LET s == limiters[hits[j].limiter].store
      IN  /\ hits[j].key \in DOMAIN windows[s]
          /\ windows[s][hits[j].key].count = PositionInWindow(j)

\* Three requests of one window, a rejected one among them, are all counted.
C14_Witness ==
  \E j \in DOMAIN hits :
    /\ Counted(j) /\ PositionInWindow(j) = 3
    /\ windows[limiters[hits[j].limiter].store][hits[j].key].count = 3
    /\ \E i \in Earlier(j) : hits[i].status = "429"

\* C15: rate windows are per limiter instance: a request counted through one
\* middleware instance leaves unchanged every window that another instance
\* observes, also when neither instance was given a store.
C15_WindowsPerInstance ==
  [][\A m, other \in LimiterIds :
       (m # other /\ limiters[other].built /\ Handles(m)) =>
         windows'[limiters[other].store] = windows[limiters[other].store]
  ]_vars

\* C16: on a perUser limiter a request without an authenticated subject is
\* passed to next() and not counted: no store changes and no 429 is produced,
\* however many such requests have come before.
C16_NoSubjectNotCounted ==
  [][\A m \in LimiterIds :
       LET h == hits'[Len(hits')]
       IN  (Handles(m) /\ limiters[m].perUser /\ Falsy(h.sub)) =>
             /\ h.status = "next"
             /\ h.key = <<>>
             /\ windows' = windows
  ]_vars

\* A perUser limiter has passed more subject-less requests than its limit.
C16_Witness ==
  \E m \in LimiterIds :
    /\ limiters[m].built /\ limiters[m].perUser
    /\ LET skipped == {j \in DOMAIN hits :
                         hits[j].limiter = m /\ Falsy(hits[j].sub)}
       IN  /\ Cardinality(skipped) > limiters[m].limit
           /\ \A j \in skipped : hits[j].status = "next"

\* C17: a limiter with limit <= 0 or windowMs <= 0 is never built, so none
\* ever processes a request.
C17_InvalidConfigRejected ==
  /\ \A m \in LimiterIds :
       limiters[m].built => limiters[m].limit > 0 /\ limiters[m].windowMs > 0
  /\ \A j \in DOMAIN hits :
       limiters[hits[j].limiter].limit > 0 /\ limiters[hits[j].limiter].windowMs > 0

C19_OnlySignedTokensVerify ==
  LET token == seen.header.token
  IN  /\ AcceptedSomewhere =>
           /\ Len(token) = 3
           /\ token[3] = base64UrlEncode(Hmac(ServerSecret, token[1], token[2]))
      /\ (token \notin IssuedTokens
            /\ \E t \in issued : DiffersInASegment(token, t.token)) =>
           RejectedEverywhere
      /\ ~ThreeNonEmptySegments(token) => RejectedEverywhere

\* A token still within its lifetime was presented with one segment replaced
\* and was rejected, while the token itself verifies at that time.
C19_Witness ==
  \E t \in issued :
    /\ seen.header.scheme = "Bearer"
    /\ seen.header.token \in Tampered(t.token)
    /\ ThreeNonEmptySegments(seen.header.token)
    /\ verifyJwt(t.token, seen.at) # {}
    /\ RejectedEverywhere

\* C20: a correctly signed token is rejected by both verifyJwt implementations
\* and by requireAuth at every time whose epoch second (the unit of exp) is
\* later than its exp; a token signed with a negative ttl is never accepted.
C20_ExpiredRejected ==
  \A t \in issued :
    (seen.header.token = t.token /\ seen.at >= t.at) =>
      /\ NowSeconds(seen.at) > ExpOf(t) => RejectedEverywhere
      /\ t.ttl < 0 => RejectedEverywhere

\* A token signed with a positive ttl was presented as a Bearer token after its
\* exp and was rejected; it had been accepted one clock step earlier.
C20_Witness ==
  \E t \in issued :
    /\ t.ttl > 0
    /\ seen.header = Authorization("Bearer", t.token)
    /\ NowSeconds(seen.at) > ExpOf(t)
    /\ verifyJwt(t.token, seen.at - TickMs) # {}
    /\ RejectedEverywhere

\* C21: a missing HMAC secret is a fatal error at startup, never a per-call
\* one: in a running server no signJwt call throws for want of the secret and
\* no request passing through requireAuth fails because the secret is missing.
C21_SecretCheckedAtStartup ==
  /\ ~signFailed
  /\ ~seen.auth.threw
  /\ seen.authWithSecret # ServerConfigurationError

\* What a middleware does with a request, given the payloads verify returned
\* for its token: next() with req.auth, or 401 with req.auth unset.
GatewayContract(outcome, payloads) ==
  /\ ~outcome.threw
  /\ outcome.next <=> (seen.header.scheme = "Bearer" /\ payloads # {})
  /\ outcome.next =>
       /\ outcome.status = 0
       /\ \E t \in issued :
            /\ t.token = seen.header.token
            /\ outcome.auth = {[ userId |-> t.sub, sessionId |-> t.sid,
                                 tokenId |-> t.token ]}
  /\ ~outcome.next => (outcome.status = 401 /\ outcome.auth = {})

\* C22: requireAuth calls next() with req.auth carrying the token's subject
\* and session id exactly when the header is 'Bearer <token>' and verify
\* accepts the token; otherwise (no header, another scheme, a malformed,
\* tampered or expired token) it answers 401 with req.auth unset and does not
\* call next(); it never both responds and calls next().
C22_NextIffBearerAndVerified ==
  /\ GatewayContract(seen.auth, seen.payloads)
  /\ GatewayContract(seen.authWithSecret, seen.payloadsWithSecret)
  /\ seen.header.scheme = "Bearer"
       /\ seen.header.token \in
             Foreign \cup UNION {Tampered(t) \cup Malformed(t) : t \in IssuedTokens}
       /\ seen.header.token \notin IssuedTokens
     => RejectedEverywhere

C22_Witness ==
  /\ seen.header.scheme = "Bearer"
  /\ seen.auth.next /\ seen.authWithSecret.next
  /\ seen.auth.auth # {}

\* The store holds no row for the session id.
SessionGone(sid) == ~\E s \in sessions : SidOf(s.id) = sid

\* The last header presented carries the token, and was presented after the
\* first successful logout of the token's session.
PresentedAfterLogout(t) ==
  /\ seen.header = Authorization("Bearer", t.token)
  /\ loggedOutAt[t.sid] # NullTime
  /\ seen.at > loggedOutAt[t.sid]

C24_LogoutInvalidatesToken ==
  \A t \in issued :
    PresentedAfterLogout(t) =>
      /\ seen.auth = Unauthorized
      /\ seen.authWithSecret = Unauthorized

\* C25: deleting a session is idempotent: a deleteSessionById or a logout for
\* a session id -- whether or not a row has it, so also a second time --
\* removes at most that row, leaves every other session as it was, and ends
\* without error (204 for the logout) unless the query itself is failed.
C25_DeleteIdempotent ==
  [][ (lastDelete'.turn # lastDelete.turn /\ lastDelete'.sessionId # Nil) =>
        /\ lastDelete'.threw => faults' = faults + 1
        /\ ~lastDelete'.threw =>
             /\ lastDelete'.by = "logout" => lastDelete'.status = 204
             /\ sessions' \subseteq sessions
             /\ \A s \in sessions :
                  s \in sessions' <=> SidOf(s.id) # lastDelete'.sessionId
             /\ SessionGone(lastDelete'.sessionId) => sessions' = sessions
    ]_vars

C25_Witness ==
  /\ lastDelete.sessionId = UnknownSid
  /\ ~lastDelete.threw
  /\ sessions = InitialSessions

\* C26: findById never returns a session whose expires_at is earlier than the
\* time of the lookup.
C26_NoExpiredSessionFound ==
  \A s \in lookedUp.rows : s.expires_at >= lookedUp.at

\* changePassword ends in this step with ChangePasswordError 404 or 401.
ChangeRefused(p) ==
  /\ proc'[p] # proc[p]
  /\ proc'[p].pc = "done" /\ proc'[p].op = "change"
  /\ proc'[p].result \in {"404", "401"}

\* C27: a changePassword that fails with 404 (no such user) or 401 (current
\* password does not verify) updates no password hash and deletes no session.
C27_RefusedChangeWritesNothing ==
  [][ \A p \in Procs : ChangeRefused(p) => (users' = users /\ sessions' = sessions)
    ]_vars

C27_Witness ==
  \E p \in Procs :
    /\ proc[p].pc = "done" /\ proc[p].op = "change" /\ proc[p].result = "401"
    /\ sessions # {}

C29_ReleasedExactlyOnce ==
  [][\A p \in Procs :
       ResetStep(p) =>
         /\ proc'[p].pc # "done" => (proc'[p].client /\ proc'[p].released = 0)
         /\ (proc'[p].pc = "done" /\ proc[p].client) =>
               /\ proc'[p].released = 1
               /\ proc'[p].result \in {"true", "false", "error"}
               /\ proc'[p].result # "true" => proc'[p].rolledBack
               /\ proc'[p].result = "true" => proc[p].pc = "rp_commit"
         /\ (proc'[p].pc = "done" /\ ~proc[p].client) =>
               /\ Free(p)
               /\ faults' = faults + 1
               /\ proc'[p].released = 0
               /\ proc'[p].result = "error"
  ]_vars

\* A call that threw after acquiring its connection has settled beside one
\* that returned false: each released once, after a ROLLBACK.
C29_Witness ==
  \E p, q \in Procs :
    /\ proc[p].pc = "done" /\ proc[p].op = "reset" /\ proc[p].result = "error"
    /\ proc[p].released = 1 /\ proc[p].rolledBack
    /\ proc[q].pc = "done" /\ proc[q].op = "reset" /\ proc[q].result = "false"
    /\ proc[q].released = 1 /\ proc[q].rolledBack

\* requestPasswordReset stores its token row in this step.
Inserts(p) == proc[p].pc = "rq_insert" /\ proc'[p].pc = "rq_send"

\* The row would pass resetPassword's validity check now.
Redeemable(row) == ~TokenRejected(row, now)

\* C30: each requestPasswordReset for an existing account adds exactly one
\* token row, unused and with a hash no earlier row has, and touches no
\* earlier row; a redemption that returns true sets used_at on the redeemed
\* row only, so every other row -- the same user's other unused, unexpired
\* tokens among them -- is as it was and still redeemable.
C30_TokensIndependent ==
  [][\A p \in Procs :
       /\ Inserts(p) =>
            /\ tokens \subseteq tokens'
            /\ Cardinality(tokens' \ tokens) = 1
            /\ \A new \in tokens' \ tokens :
                 /\ new.user_id = proc[p].user
                 /\ new.used_at = NullTime
                 /\ \A old \in tokens :
                      old.id # new.id /\ old.token_hash # new.token_hash
       /\ ReturnsTrue(p) =>
            \E redeemed \in proc[p].rows :
              /\ \A row \in tokens :
                   row.id # redeemed.id =>
                     /\ row \in tokens'
                     /\ Redeemable(row) => Redeemable(row)'
              /\ \A row \in tokens' :
                   row.id = redeemed.id =>
                     /\ row.used_at # NullTime
                     /\ [row EXCEPT !.used_at = NullTime] \in tokens
              /\ Cardinality(tokens') = Cardinality(tokens)
  ]_vars

\* A user holds two token rows; one has been redeemed and the other is still
\* unused and unexpired.
C30_Witness ==
  \E used \in tokens, other \in tokens :
    /\ used.user_id = other.user_id /\ used.id # other.id
    /\ used.used_at # NullTime
    /\ \E raw \in RawTokens : redeemOk[raw] = 1 /\ used.token_hash = hashToken(raw)
    /\ other.used_at = NullTime /\ Redeemable(other)

====
